---- MODULE Spec2Model ----
(***************************************************************************)
(* Model of data_utils/inject_to_database.py: the COLMAPDatabase           *)
(* connection (schema resolution, update_camera, update_image), the array  *)
(* codec and the two ingestion drivers camTodatabase / imgTodatabase.      *)
(*                                                                         *)
(* Storage engine facts the model relies on (sqlite3 as driven by the      *)
(* code):                                                                  *)
(*  - the connection is opened with the default isolation level, so the    *)
(*    first UPDATE/INSERT opens a transaction that only commit() releases; *)
(*    executescript() commits a pending transaction before it runs;        *)
(*  - the code never issues PRAGMA foreign_keys=ON, so the FOREIGN KEY     *)
(*    clauses of the DDL are declared but not enforced;                    *)
(*  - SELECT * on a rowid table yields the rows in primary-key order.      *)
(***************************************************************************)
EXTENDS Integers, Sequences, FiniteSets, TLC

----------------------------------------------------------------------------
(* Bounds of the model *)

\* calls made on one connection in Spec
MaxCalls == 3
\* poses offered to update_image: pose k is <<k, k+1, ..., k+6>>
MaxPose == 2
\* lines of an input text file
MaxLines == 2
\* distinct camera records offered for one camera id in cameras.txt
MaxCamVal == 2

----------------------------------------------------------------------------
(* Array codec: float64 little-endian, 8 bytes per element *)

\* np.nan; the finite floats of the model are the integers 0..15
NaN == -1

Pow2(n) == IF n = 0 THEN 1 ELSE IF n = 1 THEN 2 ELSE IF n = 2 THEN 4
           ELSE IF n = 3 THEN 8 ELSE 16

Log2Floor(v) == IF v >= 8 THEN 3 ELSE IF v >= 4 THEN 2 ELSE IF v >= 2 THEN 1 ELSE 0

\* IEEE-754 binary64 of one element, least significant byte first.  For the
\* integers 1..15 only the top four mantissa bits can be set.
Float64Bytes(v) ==
    IF v = NaN THEN <<0, 0, 0, 0, 0, 0, 248, 127>>
    ELSE IF v = 0 THEN <<0, 0, 0, 0, 0, 0, 0, 0>>
    ELSE LET e == Log2Floor(v)
             top4 == (v - Pow2(e)) * Pow2(4 - e)
             biased == e + 1023
         IN  <<0, 0, 0, 0, 0, 0, (biased % 16) * 16 + top4, biased \div 16>>

BytesFloat64(b) ==
    LET biased == (b[8] % 128) * 16 + (b[7] \div 16)
        top4 == b[7] % 16
        lowZero == \A i \in 1..6 : b[i] = 0
    IN  IF biased = 2047 /\ ~(top4 = 0 /\ lowZero) THEN NaN
        ELSE IF biased = 0 THEN 0
        ELSE ((16 + top4) * Pow2(biased - 1023)) \div 16

RECURSIVE array_to_blob(_)
array_to_blob(array) ==
    IF array = <<>> THEN <<>>
    ELSE Float64Bytes(Head(array)) \o array_to_blob(Tail(array))

\* shape (-1,): one dimension inferred from the byte length
RECURSIVE blob_to_array(_)
blob_to_array(blob) ==
    IF blob = <<>> THEN <<>>
    ELSE <<BytesFloat64(SubSeq(blob, 1, 8))>> \o blob_to_array(SubSeq(blob, 9, Len(blob)))

----------------------------------------------------------------------------
(* Schema constants *)

PRIOR_Q_COLUMN_CANDIDATES ==
    << <<"prior_qw", "qvec_prior_w">>,
       <<"prior_qx", "qvec_prior_x">>,
       <<"prior_qy", "qvec_prior_y">>,
       <<"prior_qz", "qvec_prior_z">> >>

PRIOR_T_COLUMN_CANDIDATES ==
    << <<"prior_tx", "tvec_prior_x">>,
       <<"prior_ty", "tvec_prior_y">>,
       <<"prior_tz", "tvec_prior_z">> >>

\* the columns CREATE_IMAGES_TABLE gives a new images table
CREATE_IMAGES_TABLE ==
    {"image_id", "name", "camera_id",
     "prior_qw", "prior_qx", "prior_qy", "prior_qz",
     "prior_tx", "prior_ty", "prior_tz"}

BaseColumns == {"image_id", "name", "camera_id"}

\* the tables CREATE_ALL creates that this model follows
CREATE_ALL == {"cameras", "images", "pose_priors"}

Range(s) == {s[i] : i \in DOMAIN s}

\* known_columns of _get_image_prior_spec
known_columns ==
    UNION {Range(g) : g \in Range(PRIOR_Q_COLUMN_CANDIDATES \o PRIOR_T_COLUMN_CANDIDATES)}

\* known_columns in the order sorted() gives
SortedKnownColumns ==
    <<"prior_qw", "prior_qx", "prior_qy", "prior_qz",
      "prior_tx", "prior_ty", "prior_tz",
      "qvec_prior_w", "qvec_prior_x", "qvec_prior_y", "qvec_prior_z",
      "tvec_prior_x", "tvec_prior_y", "tvec_prior_z">>

----------------------------------------------------------------------------
(* Schema resolver *)

NoneSpec == [storage |-> "None", q_columns |-> <<>>, t_columns |-> <<>>]

\* a resolver that lets a later synonym win over an earlier one
RECURSIVE FirstPresent_lastWins(_, _)
FirstPresent_lastWins(group, column_names) ==
    IF group = <<>> THEN <<>>
    ELSE IF FirstPresent_lastWins(Tail(group), column_names) # <<>>
    THEN FirstPresent_lastWins(Tail(group), column_names)
    ELSE IF Head(group) \in column_names THEN <<Head(group)>>
    ELSE <<>>

\* inner loop of _select_candidates: first candidate of the group present
RECURSIVE FirstPresent(_, _)
FirstPresent(group, column_names) ==
    IF group = <<>> THEN <<>>
    ELSE IF Head(group) \in column_names THEN <<Head(group)>>
    ELSE FirstPresent(Tail(group), column_names)

RECURSIVE select_candidates(_, _)
select_candidates(candidate_groups, column_names) ==
    IF candidate_groups = <<>> THEN <<>>
    ELSE FirstPresent(Head(candidate_groups), column_names)
            \o select_candidates(Tail(candidate_groups), column_names)

\* PRAGMA table_info(images): no rows when the table does not exist
table_info(d) == IF "images" \in d.tables THEN d.columns ELSE {}

\* an error message that lists the missing orientation columns only
missing_columns_orientationOnly(column_names) ==
    SelectSeq(SortedKnownColumns,
              LAMBDA c : c \in (UNION {Range(g) : g \in Range(PRIOR_Q_COLUMN_CANDIDATES)})
                                \ column_names)

\* sorted(known_columns - column_names)
missing_columns(column_names) ==
    SelectSeq(SortedKnownColumns, LAMBDA c : c \in known_columns \ column_names)

\* a resolver that never finds its cache filled
is_cached_never(cached) == FALSE

\* the cache test of _get_image_prior_spec
is_cached(cached) == cached # NoneSpec

\* the strategy condition of _get_image_prior_spec
all_resolved(prior_q_columns, prior_t_columns) ==
    Len(prior_q_columns) = 4 /\ Len(prior_t_columns) = 3

\* _get_image_prior_spec on a connection whose cache is `cached` and whose
\* database is d.  spec: the value returned (and cached); error: the
\* exception raised; probed: whether the images metadata was read.
get_image_prior_spec(cached, d) ==
    IF is_cached(cached)
    THEN [spec |-> cached, error |-> "none", missing |-> <<>>, probed |-> FALSE]
    ELSE LET column_names == table_info(d)
             prior_q_columns == select_candidates(PRIOR_Q_COLUMN_CANDIDATES, column_names)
             prior_t_columns == select_candidates(PRIOR_T_COLUMN_CANDIDATES, column_names)
         IN  IF all_resolved(prior_q_columns, prior_t_columns)
             THEN [spec |-> [storage |-> "images",
                             q_columns |-> prior_q_columns,
                             t_columns |-> prior_t_columns],
                   error |-> "none", missing |-> <<>>, probed |-> TRUE]
             ELSE IF "pose_priors" \in d.tables
             THEN [spec |-> [storage |-> "pose_priors",
                             q_columns |-> <<>>, t_columns |-> <<>>],
                   error |-> "none", missing |-> <<>>, probed |-> TRUE]
             ELSE [spec |-> NoneSpec, error |-> "RuntimeError",
                   missing |-> missing_columns(column_names), probed |-> TRUE]

----------------------------------------------------------------------------
(* The database and the writers *)

\* A database: the tables present, the columns of images, and the rows.
\* cameras and images are keyed by their INTEGER PRIMARY KEY; pose_priors is
\* kept as a set of rows.
EmptyDb ==
    [tables |-> {}, columns |-> {}, cameras |-> <<>>, images |-> <<>>,
     pose_priors |-> {}]

\* UPDATE ... SET col_i = val_i on one row, columns and values paired by position
SetColumns(row, cols, vals) ==
    [c \in DOMAIN row |->
        IF \E i \in DOMAIN cols : cols[i] = c
        THEN vals[CHOOSE i \in DOMAIN cols : cols[i] = c]
        ELSE row[c]]

\* UPDATE images SET ... WHERE image_id=?
UpdateImagesRow(d, cols, vals, image_id) ==
    [d EXCEPT !.images =
        [i \in DOMAIN d.images |->
            IF i = image_id THEN SetColumns(d.images[i], cols, vals)
            ELSE d.images[i]]]

\* a plain insert that keeps the row already stored for the image
InsertOrReplacePosePrior_keepOld(d, row) ==
    [d EXCEPT !.pose_priors = d.pose_priors \cup {row}]

\* INSERT OR REPLACE INTO pose_priors: a row with the same primary key goes
InsertOrReplacePosePrior(d, row) ==
    [d EXCEPT !.pose_priors =
        {r \in d.pose_priors : r.image_id # row.image_id} \cup {row}]

\* the columns named by the inline UPDATE statement, in statement order
InlineColumns(prior_spec) ==
    prior_spec.q_columns \o prior_spec.t_columns \o <<"camera_id">>

\* the values bound with the position ahead of the orientation
InlineValues_positionFirst(a) ==
    <<a.TX, a.TY, a.TZ, a.QW, a.QX, a.QY, a.QZ, a.CAMERA_ID>>

\* the values bound to the inline UPDATE statement (without the key)
InlineValues(a) ==
    <<a.QW, a.QX, a.QY, a.QZ, a.TX, a.TY, a.TZ, a.CAMERA_ID>>

\* the row bound to the INSERT OR REPLACE statement
PosePriorRow(a) ==
    [image_id |-> a.IMAGE_ID,
     position |-> array_to_blob(<<a.TX, a.TY, a.TZ>>),
     coordinate_system |-> -1,
     position_covariance |-> array_to_blob([i \in 1..9 |-> NaN])]

\* an inline branch that does not return and runs on into the insert
InlineWrite_fallThrough(d, prior_spec, a) ==
    IF "images" \notin d.tables THEN [db |-> d, error |-> "OperationalError"]
    ELSE [db |-> InsertOrReplacePosePrior(
                    UpdateImagesRow(d, InlineColumns(prior_spec), InlineValues(a),
                                    a.IMAGE_ID),
                    PosePriorRow(a)),
          error |-> "none"]

\* update_image, branch prior_spec["storage"] == "images"
InlineWrite(d, prior_spec, a) ==
    IF "images" \notin d.tables THEN [db |-> d, error |-> "OperationalError"]
    ELSE [db |-> UpdateImagesRow(d, InlineColumns(prior_spec), InlineValues(a), a.IMAGE_ID),
          error |-> "none"]

\* update_image, the pose_priors branch: two statements
SeparateWrite(d, a) ==
    IF "images" \notin d.tables THEN [db |-> d, error |-> "OperationalError"]
    ELSE LET d1 == UpdateImagesRow(d, <<"camera_id">>, <<a.CAMERA_ID>>, a.IMAGE_ID)
         IN  IF "pose_priors" \notin d1.tables
             THEN [db |-> d1, error |-> "OperationalError"]
             ELSE [db |-> InsertOrReplacePosePrior(d1, PosePriorRow(a)),
                   error |-> "none"]

\* COLMAPDatabase.update_image on a connection with cache `cached`
update_image(cached, d, a) ==
    LET r == get_image_prior_spec(cached, d)
    IN  IF r.error # "none"
        THEN [db |-> d, spec |-> cached, error |-> r.error,
              missing |-> r.missing, probed |-> r.probed]
        ELSE LET w == IF r.spec.storage = "images"
                      THEN InlineWrite(d, r.spec, a)
                      ELSE SeparateWrite(d, a)
             IN  [db |-> w.db, spec |-> r.spec, error |-> w.error,
                  missing |-> <<>>, probed |-> r.probed]

\* width and height bound in each other's place
CameraRow_swapped(model, width, height, params) ==
    [model |-> model, width |-> height, height |-> width,
     params |-> array_to_blob(params), prior_focal_length |-> 1]

\* the row values update_camera binds
CameraRow(model, width, height, params) ==
    [model |-> model, width |-> width, height |-> height,
     params |-> array_to_blob(params), prior_focal_length |-> 1]

\* COLMAPDatabase.update_camera: UPDATE cameras SET ... WHERE camera_id=?
update_camera(d, model, width, height, params, camera_id) ==
    IF "cameras" \notin d.tables THEN [db |-> d, error |-> "OperationalError"]
    ELSE [db |-> [d EXCEPT !.cameras =
                    [c \in DOMAIN d.cameras |->
                        IF c = camera_id
                        THEN CameraRow(model, width, height, params)
                        ELSE d.cameras[c]]],
          error |-> "none"]

\* create_tables: executescript(CREATE_ALL), each table IF NOT EXISTS
create_tables_db(d) ==
    [d EXCEPT !.tables = d.tables \cup CREATE_ALL,
              !.columns = IF "images" \in d.tables THEN d.columns
                          ELSE CREATE_IMAGES_TABLE]

----------------------------------------------------------------------------
(* State *)

VARIABLES
    db,                \* the database as the open connection sees it
    disk,              \* the database file: what has been committed
    image_prior_spec,  \* self._image_prior_spec of the open connection
    ret,               \* the last call made on the connection and its outcome
    ncalls,            \* calls made on the connection
    nprobes,           \* times PRAGMA table_info(images) was executed
    phase,             \* the driver running: "cam", "img", "exit", or "api"
    pc,                \* the driver's position
    lines,             \* lines = f.readlines() of the driver running
    idx,               \* the loop index i (1-based)
    lists,             \* idList, modelList, widthList, heightList, paramsList
    error,             \* the exception that ended the process, or "none"
    committed,         \* whether the running driver has executed db.commit()
    startDisk          \* the database file as the running driver found it

vars == <<db, disk, image_prior_spec, ret, ncalls, nprobes,
          phase, pc, lines, idx, lists, error, committed, startDisk>>

driverVars == <<phase, pc, lines, idx, lists, error, committed, startDisk>>

----------------------------------------------------------------------------
(* Inputs *)

ExistingImageIds == {1, 2}
ImageIds == {1, 2, 3}
ExistingCameraIds == {1, 2}
CameraIds == {1, 2, 3}
\* the camera update_image reassigns an image to (rows start with camera 1)
ArgCameraIds == {2}

\* pose k: seven pairwise different components
Pose(k) == [i \in 1..7 |-> k + i - 1]

Args ==
    {[IMAGE_ID |-> id, QW |-> Pose(k)[1], QX |-> Pose(k)[2], QY |-> Pose(k)[3],
      QZ |-> Pose(k)[4], TX |-> Pose(k)[5], TY |-> Pose(k)[6], TZ |-> Pose(k)[7],
      CAMERA_ID |-> c] : id \in ImageIds, k \in 1..MaxPose, c \in ArgCameraIds}

NoArgs ==
    [IMAGE_ID |-> 0, QW |-> 0, QX |-> 0, QY |-> 0, QZ |-> 0,
     TX |-> 0, TY |-> 0, TZ |-> 0, CAMERA_ID |-> 0]

NoRet == [op |-> "none", a |-> NoArgs, error |-> "none", missing |-> <<>>]

\* how the synonyms of one candidate tuple are laid out in an images table
Styles == {"none", "first", "second", "both", "mixed", "partial"}

\* the layouts tried for the position columns beside each orientation layout
PositionStyles == {"none", "first", "second", "mixed"}

StyleColumns(groups, style) ==
    UNION {{g[1] : g \in {groups[i] : i \in
                {i \in DOMAIN groups :
                    \/ style \in {"first", "both"}
                    \/ style = "mixed" /\ i % 2 = 1
                    \/ style = "partial" /\ i < Len(groups)}}},
           {g[2] : g \in {groups[i] : i \in
                {i \in DOMAIN groups :
                    \/ style \in {"second", "both"}
                    \/ style = "mixed" /\ i % 2 = 0}}}}

\* an images row as an earlier ingestion stage leaves it: priors zero
ImageRow(columns, id) ==
    [c \in columns |->
        IF c = "image_id" THEN id
        ELSE IF c = "name" THEN 100 + id
        ELSE IF c = "camera_id" THEN 1
        ELSE 0]

CameraRow0 ==
    [model |-> 0, width |-> 0, height |-> 0, params |-> <<>>,
     prior_focal_length |-> 0]

\* a database holding cameras and images, with or without pose_priors
Database(columns, with_pose_priors) ==
    [tables |-> {"cameras", "images"} \cup
                (IF with_pose_priors THEN {"pose_priors"} ELSE {}),
     columns |-> columns,
     cameras |-> [c \in ExistingCameraIds |-> CameraRow0],
     images |-> [i \in ExistingImageIds |-> ImageRow(columns, i)],
     pose_priors |-> {}]

StyledDatabases ==
    {Database(BaseColumns \cup StyleColumns(PRIOR_Q_COLUMN_CANDIDATES, sq)
                          \cup StyleColumns(PRIOR_T_COLUMN_CANDIDATES, st), pp) :
        sq \in Styles, st \in PositionStyles, pp \in BOOLEAN}

DriverIdle ==
    /\ pc = "idle" /\ lines = <<>> /\ idx = 0
    /\ lists = <<>> /\ error = "none" /\ committed = FALSE

----------------------------------------------------------------------------
(* Spec: calls made directly on one open connection *)

Init ==
    /\ db \in StyledDatabases \cup {EmptyDb}
    /\ disk = db
    /\ startDisk = db
    /\ image_prior_spec = NoneSpec
    /\ ret = NoRet
    /\ ncalls = 0
    /\ nprobes = 0
    /\ phase = "api"
    /\ DriverIdle

UpdateImageCall ==
    /\ phase = "api" /\ ncalls < MaxCalls
    /\ \E a \in Args :
         LET r == update_image(image_prior_spec, db, a)
         IN  /\ db' = r.db
             /\ image_prior_spec' = r.spec
             /\ nprobes' = nprobes + (IF r.probed THEN 1 ELSE 0)
             /\ ret' = [op |-> "update_image", a |-> a, error |-> r.error,
                        missing |-> r.missing]
    /\ ncalls' = ncalls + 1
    /\ UNCHANGED <<disk, driverVars>>

\* db.create_tables(): executescript commits what is pending, then runs the DDL
CreateTablesCall ==
    /\ phase = "api" /\ ncalls < MaxCalls
    /\ db' = create_tables_db(db)
    /\ disk' = db'
    /\ ret' = [NoRet EXCEPT !.op = "create_tables"]
    /\ ncalls' = ncalls + 1
    /\ UNCHANGED <<image_prior_spec, nprobes, driverVars>>

\* db.commit()
CommitCall ==
    /\ phase = "api" /\ ncalls < MaxCalls
    /\ disk' = db
    /\ ret' = [NoRet EXCEPT !.op = "commit"]
    /\ ncalls' = ncalls + 1
    /\ UNCHANGED <<db, image_prior_spec, nprobes, driverVars>>

Next == UpdateImageCall \/ CreateTablesCall \/ CommitCall

Spec == Init /\ [][Next]_vars

----------------------------------------------------------------------------
(* SpecResolve: _get_image_prior_spec over every images schema *)

InitResolve ==
    /\ db \in {[EmptyDb EXCEPT !.tables = t, !.columns = BaseColumns \cup cols] :
                  t \in {{"images"}, {"images", "pose_priors"}},
                  cols \in SUBSET known_columns}
              \cup {EmptyDb, [EmptyDb EXCEPT !.tables = {"pose_priors"}]}
    /\ disk = db
    /\ startDisk = db
    /\ image_prior_spec = NoneSpec
    /\ ret = NoRet
    /\ ncalls = 0
    /\ nprobes = 0
    /\ phase = "api"
    /\ DriverIdle

GetImagePriorSpecCall ==
    /\ phase = "api" /\ ncalls < 1
    /\ LET r == get_image_prior_spec(image_prior_spec, db)
       IN  /\ image_prior_spec' = r.spec
           /\ nprobes' = nprobes + (IF r.probed THEN 1 ELSE 0)
           /\ ret' = [op |-> "get_image_prior_spec", a |-> NoArgs,
                      error |-> r.error, missing |-> r.missing]
    /\ ncalls' = ncalls + 1
    /\ UNCHANGED <<db, disk, driverVars>>

NextResolve == GetImagePriorSpecCall

SpecResolve == InitResolve /\ [][NextResolve]_vars

----------------------------------------------------------------------------
(* Properties of the connection *)

\* the columns the images table has in database d
ImagesColumnsOf(d) == IF "images" \in d.tables THEN d.columns ELSE {}

\* some synonym of the role is a column
RolePresent(g, cols) == g[1] \in cols \/ g[2] \in cols

\* the column a role resolves to: prior_* before qvec_prior_* / tvec_prior_*
RoleColumn(g, cols) ==
    IF g[1] \in cols THEN g[1] ELSE IF g[2] \in cols THEN g[2] ELSE "unresolved"

AllRolesPresent(cols) ==
    /\ \A i \in 1..4 : RolePresent(PRIOR_Q_COLUMN_CANDIDATES[i], cols)
    /\ \A i \in 1..3 : RolePresent(PRIOR_T_COLUMN_CANDIDATES[i], cols)

\* the images row the inline strategy must leave for arguments a
InlineExpected(row, cols, a) ==
    LET q == <<a.QW, a.QX, a.QY, a.QZ>>
        t == <<a.TX, a.TY, a.TZ>>
    IN  [c \in DOMAIN row |->
            IF c = "camera_id" THEN a.CAMERA_ID
            ELSE IF \E i \in 1..4 : c = RoleColumn(PRIOR_Q_COLUMN_CANDIDATES[i], cols)
            THEN q[CHOOSE i \in 1..4 : c = RoleColumn(PRIOR_Q_COLUMN_CANDIDATES[i], cols)]
            ELSE IF \E i \in 1..3 : c = RoleColumn(PRIOR_T_COLUMN_CANDIDATES[i], cols)
            THEN t[CHOOSE i \in 1..3 : c = RoleColumn(PRIOR_T_COLUMN_CANDIDATES[i], cols)]
            ELSE row[c]]

\* C1: when the images table carries a column for all seven prior roles,
\* update_image sets exactly the four resolved orientation columns, the three
\* resolved position columns and camera_id of the row with the given image_id
\* to (qw,qx,qy,qz,tx,ty,tz,camera_id) in that order, and leaves every other
\* column of the row, every other images row and every other table unchanged.
C1_InlineWritesExactlyEight ==
    [][(ret'.op = "update_image" /\ AllRolesPresent(ImagesColumnsOf(db)))
        => /\ ret'.error = "none"
           /\ db'.tables = db.tables /\ db'.columns = db.columns
           /\ db'.cameras = db.cameras
           /\ db'.pose_priors = db.pose_priors
           /\ disk' = disk
           /\ DOMAIN db'.images = DOMAIN db.images
           /\ \A i \in DOMAIN db.images :
                db'.images[i] =
                    IF i = ret'.a.IMAGE_ID
                    THEN InlineExpected(db.images[i], db.columns, ret'.a)
                    ELSE db.images[i]]_vars

\* an image stored under the second synonyms has received its pose and camera
C1_Witness ==
    /\ ret.op = "update_image" /\ ret.error = "none"
    /\ AllRolesPresent(ImagesColumnsOf(db))
    /\ "prior_qw" \notin db.columns /\ "prior_tz" \notin db.columns
    /\ ret.a.IMAGE_ID \in DOMAIN db.images
    /\ ret.a.CAMERA_ID = 2
    /\ db.images[ret.a.IMAGE_ID]["camera_id"] = 2
    /\ db.images[ret.a.IMAGE_ID]["qvec_prior_w"] = ret.a.QW
    /\ db.images[ret.a.IMAGE_ID]["tvec_prior_z"] = ret.a.TZ

\* C2: when the images table lacks a complete set of prior columns and the
\* pose_priors table exists, update_image on an existing image sets the
\* row's camera_id and nothing else of the images table, and leaves exactly
\* one pose_priors row for that image_id, whose position decodes to
\* (tx,ty,tz), whose coordinate_system is -1 and whose nine covariance
\* entries are all NaN; rows of other images stay as they were.
C2_SeparateTableWrite ==
    [][(/\ ret'.op = "update_image"
        /\ "images" \in db.tables /\ "pose_priors" \in db.tables
        /\ ~AllRolesPresent(ImagesColumnsOf(db))
        /\ ret'.a.IMAGE_ID \in DOMAIN db.images)
        => LET a == ret'.a
               mine == {r \in db'.pose_priors : r.image_id = a.IMAGE_ID}
           IN  /\ ret'.error = "none"
               /\ db'.images =
                    [db.images EXCEPT ![a.IMAGE_ID] =
                        [db.images[a.IMAGE_ID] EXCEPT !["camera_id"] = a.CAMERA_ID]]
               /\ db'.cameras = db.cameras
               /\ Cardinality(mine) = 1
               /\ \A r \in mine :
                    /\ DOMAIN r = {"image_id", "position", "coordinate_system",
                                   "position_covariance"}
                    /\ blob_to_array(r.position) = <<a.TX, a.TY, a.TZ>>
                    /\ r.coordinate_system = -1
                    /\ Len(blob_to_array(r.position_covariance)) = 9
                    /\ \A k \in 1..9 : blob_to_array(r.position_covariance)[k] = NaN
               /\ {r \in db'.pose_priors : r.image_id # a.IMAGE_ID}
                    = {r \in db.pose_priors : r.image_id # a.IMAGE_ID}]_vars

\* an image whose committed pose_priors row held the first pose has been
\* written again with the second pose: one row, the new one
C2_Witness ==
    /\ ret.op = "update_image" /\ ret.error = "none"
    /\ image_prior_spec.storage = "pose_priors"
    /\ ret.a.IMAGE_ID \in DOMAIN db.images
    /\ db.images[ret.a.IMAGE_ID]["camera_id"] = 2
    /\ \E old \in disk.pose_priors :
          /\ old.image_id = ret.a.IMAGE_ID
          /\ blob_to_array(old.position) = <<Pose(1)[5], Pose(1)[6], Pose(1)[7]>>
    /\ ret.a.TX = Pose(2)[5]
    /\ \A r \in db.pose_priors :
          r.image_id = ret.a.IMAGE_ID
            => blob_to_array(r.position) = <<ret.a.TX, ret.a.TY, ret.a.TZ>>

\* C3 as stated: the images metadata is read at most once per connection
C3_ResolvedAtMostOnce == nprobes <= 1

\* C3 amended: once a resolution has succeeded and is cached, no later call
\* reads the images metadata again or changes the cached spec, whatever
\* happens to the schema; a call made while nothing is cached reads it.
C3_NoProbeOnceCached ==
    [][/\ image_prior_spec # NoneSpec
          => (image_prior_spec' = image_prior_spec /\ nprobes' = nprobes)
       /\ (ret'.op = "update_image" /\ image_prior_spec = NoneSpec)
          => nprobes' = nprobes + 1]_vars

\* two images written on one connection with a single resolution
C3_Witness ==
    /\ image_prior_spec # NoneSpec /\ nprobes = 1
    /\ ret.op = "update_image"
    /\ DOMAIN db.images = ExistingImageIds
    /\ \A i \in DOMAIN db.images : db.images[i]["camera_id"] = 2

\* C4: with neither a complete set of prior columns nor a pose_priors table,
\* update_image raises an error listing every known prior column the images
\* table lacks, changes no row of any table and caches nothing.
C4_UnrecognizedSchemaFails ==
    [][(/\ ret'.op = "update_image"
        /\ ~AllRolesPresent(ImagesColumnsOf(db))
        /\ "pose_priors" \notin db.tables)
        => /\ ret'.error = "RuntimeError"
           /\ \A c \in Range(SortedKnownColumns) :
                c \in Range(ret'.missing) <=> c \notin ImagesColumnsOf(db)
           /\ db' = db /\ disk' = disk
           /\ image_prior_spec' = NoneSpec]_vars

\* a failed call on an images table that has some but not all prior columns
C4_Witness ==
    /\ ret.op = "update_image" /\ ret.error = "RuntimeError"
    /\ "prior_qw" \in db.columns /\ "tvec_prior_x" \in db.columns
    /\ Len(ret.missing) > 0
    /\ image_prior_spec = NoneSpec

\* a prior orientation or position column of some images row differs
PriorColumnsDiffer(d1, d2) ==
    \E i \in DOMAIN d1.images \cap DOMAIN d2.images :
        \E c \in DOMAIN d1.images[i] \ BaseColumns :
            d1.images[i][c] # d2.images[i][c]

\* C9: every update_image call runs the one branch the memoized spec
\* selects: under "images" the pose_priors table is unchanged, under
\* "pose_priors" no prior column of images is written, a call that raises
\* writes nothing, and no call changes both.
C9_OneBranchPerCall ==
    [][ret'.op = "update_image"
        => /\ ret'.error = "none"
                => image_prior_spec'.storage \in {"images", "pose_priors"}
           /\ image_prior_spec'.storage = "images"
                => db'.pose_priors = db.pose_priors
           /\ image_prior_spec'.storage = "pose_priors"
                => ~PriorColumnsDiffer(db, db')
           /\ ret'.error # "none" => db' = db
           /\ ~(db'.pose_priors # db.pose_priors /\ PriorColumnsDiffer(db, db'))]_vars

\* the inline branch ran on a database that also has a pose_priors table
C9_Witness ==
    /\ ret.op = "update_image" /\ ret.error = "none"
    /\ image_prior_spec.storage = "images"
    /\ "pose_priors" \in db.tables /\ db.pose_priors = {}
    /\ ret.a.IMAGE_ID \in DOMAIN db.images
    /\ db.images[ret.a.IMAGE_ID]["prior_qx"] = ret.a.QX

\* C10: every pose_priors row refers to an existing images row
C10_NoOrphanPosePrior ==
    \A r \in db.pose_priors : r.image_id \in DOMAIN db.images

\* C5: the strategy is "images" exactly when all seven roles have a synonym
\* among the images columns, and then carries for each role its first
\* present synonym, whether or not pose_priors exists; otherwise it is
\* "pose_priors" exactly when that table exists; otherwise resolution raises.
\* Exactly one of the three happens.
C5_StrategySelection ==
    ret.op = "get_image_prior_spec"
    => LET cols == ImagesColumnsOf(db)
           inline == image_prior_spec.storage = "images"
           separate == image_prior_spec.storage = "pose_priors"
           failed == ret.error = "RuntimeError"
       IN  /\ inline <=> AllRolesPresent(cols)
           /\ inline =>
                /\ image_prior_spec.q_columns =
                     [i \in 1..4 |-> RoleColumn(PRIOR_Q_COLUMN_CANDIDATES[i], cols)]
                /\ image_prior_spec.t_columns =
                     [i \in 1..3 |-> RoleColumn(PRIOR_T_COLUMN_CANDIDATES[i], cols)]
           /\ separate <=> (~AllRolesPresent(cols) /\ "pose_priors" \in db.tables)
           /\ failed <=> (~AllRolesPresent(cols) /\ "pose_priors" \notin db.tables)
           /\ failed <=> image_prior_spec = NoneSpec
           /\ Cardinality({b \in {<<1, inline>>, <<2, separate>>, <<3, failed>>} : b[2]}) = 1

\* inline columns chosen although pose_priors exists, with both synonyms of
\* one role present and only the second of another
C5_Witness ==
    /\ ret.op = "get_image_prior_spec"
    /\ image_prior_spec.storage = "images"
    /\ "pose_priors" \in db.tables
    /\ {"prior_qw", "qvec_prior_w", "qvec_prior_x"} \subseteq db.columns
    /\ "prior_qx" \notin db.columns
    /\ image_prior_spec.q_columns[1] = "prior_qw"
    /\ image_prior_spec.q_columns[2] = "qvec_prior_x"

----------------------------------------------------------------------------
(* Text input: a line is the sequence of its whitespace-separated fields;  *)
(* a comment line is one whose first character is '#'.                      *)

\* the numerals int() and float() are given in this model
Numerals == <<"0", "1", "2", "3", "4", "5", "6", "7", "8", "9">>

\* whether int(tok) / float(tok) succeeds
IsNumber(tok) == \E i \in DOMAIN Numerals : Numerals[i] = tok

\* int(tok), float(tok)
NumberOf(tok) == (CHOOSE i \in DOMAIN Numerals : Numerals[i] = tok) - 1

CamModelNames ==
    <<"SIMPLE_PINHOLE", "PINHOLE", "SIMPLE_RADIAL", "RADIAL", "OPENCV",
      "FULL_OPENCV", "SIMPLE_RADIAL_FISHEYE", "RADIAL_FISHEYE",
      "OPENCV_FISHEYE", "FOV", "THIN_PRISM_FISHEYE">>

camModelDict ==
    [n \in Range(CamModelNames) |->
        (CHOOSE i \in DOMAIN CamModelNames : CamModelNames[i] = n) - 1]

\* the error of reading field i of a line as a number
FieldError(line, i) ==
    IF i > Len(line) THEN "IndexError"
    ELSE IF ~IsNumber(line[i]) THEN "ValueError"
    ELSE "none"

\* the first error among the given checks, in evaluation order
RECURSIVE FirstError(_)
FirstError(errs) ==
    IF errs = <<>> THEN "none"
    ELSE IF Head(errs) # "none" THEN Head(errs)
    ELSE FirstError(Tail(errs))

\* strLists[4:12], each field converted by astype(np.float64)
ParamFields(strLists) ==
    SubSeq(strLists, 5, IF Len(strLists) < 12 THEN Len(strLists) ELSE 12)

\* the body of camTodatabase's loop for a non-comment line, up to the appends
ParseCamLine(strLists) ==
    LET err == FirstError(<<
                 FieldError(strLists, 1),
                 IF Len(strLists) < 2 THEN "IndexError"
                 ELSE IF strLists[2] \notin DOMAIN camModelDict THEN "KeyError"
                 ELSE "none",
                 FieldError(strLists, 3),
                 FieldError(strLists, 4),
                 IF \E k \in DOMAIN ParamFields(strLists) :
                        ~IsNumber(ParamFields(strLists)[k])
                 THEN "ValueError" ELSE "none">>)
    IN  IF err # "none" THEN [error |-> err, rec |-> <<>>]
        ELSE [error |-> "none",
              rec |-> [id |-> NumberOf(strLists[1]),
                       model |-> camModelDict[strLists[2]],
                       width |-> NumberOf(strLists[3]),
                       height |-> NumberOf(strLists[4]),
                       params |-> [k \in DOMAIN ParamFields(strLists) |->
                                      NumberOf(ParamFields(strLists)[k])]]]

\* the keyword arguments imgTodatabase builds from image_metas
ParseImgLine(image_metas) ==
    LET err == FirstError([i \in 1..9 |-> FieldError(image_metas, i)])
    IN  IF err # "none" THEN [error |-> err, a |-> NoArgs]
        ELSE [error |-> "none",
              a |-> [IMAGE_ID |-> NumberOf(image_metas[1]),
                     QW |-> NumberOf(image_metas[2]),
                     QX |-> NumberOf(image_metas[3]),
                     QY |-> NumberOf(image_metas[4]),
                     QZ |-> NumberOf(image_metas[5]),
                     TX |-> NumberOf(image_metas[6]),
                     TY |-> NumberOf(image_metas[7]),
                     TZ |-> NumberOf(image_metas[8]),
                     CAMERA_ID |-> NumberOf(image_metas[9])]]

\* one camera line of cameras.txt: camera id, then a record numbered v
CamLine(id, v) ==
    <<Numerals[id + 1], CamModelNames[v], Numerals[v + 2], Numerals[v + 3],
      Numerals[v + 1], Numerals[v + 4]>>

\* one image line of images.txt
ImgLine(id, k, c) ==
    <<Numerals[id + 1]>> \o [i \in 1..7 |-> Numerals[Pose(k)[i] + 1]]
        \o <<Numerals[c + 1], "name.png">>

CamLineAlphabet ==
    {<<>>, <<"#", "comment">>, <<"1", "NO_SUCH_MODEL", "1", "1", "1">>}
        \cup {CamLine(id, v) : id \in CameraIds, v \in 1..MaxCamVal}

ImgLineAlphabet ==
    {<<>>, <<"#", "comment">>, <<"1", "1", "1">>}
        \cup {ImgLine(id, 1, c) : id \in ImageIds, c \in ArgCameraIds}

\* the files of at most MaxLines lines over an alphabet
Files(alphabet) == UNION {[1..n -> alphabet] : n \in 0..MaxLines}

\* the database files the drivers are run on
DriverDatabases ==
    {Database(BaseColumns \cup StyleColumns(PRIOR_Q_COLUMN_CANDIDATES, st)
                          \cup StyleColumns(PRIOR_T_COLUMN_CANDIDATES, st), pp) :
        st \in {"none", "first", "second"}, pp \in BOOLEAN} \cup {EmptyDb}

\* the primary keys of a table in ascending order
RECURSIVE KeyOrder(_)
KeyOrder(keys) ==
    IF keys = {} THEN <<>>
    ELSE LET m == CHOOSE k \in keys : \A o \in keys : k <= o
         IN  <<m>> \o KeyOrder(keys \ {m})

----------------------------------------------------------------------------
(* SpecPass: the program run, camTodatabase then imgTodatabase *)

InitPass ==
    /\ disk \in DriverDatabases
    /\ db = disk
    /\ startDisk = disk
    /\ image_prior_spec = NoneSpec
    /\ ret = NoRet
    /\ ncalls = 0
    /\ nprobes = 0
    /\ phase = "cam"
    /\ pc = "start"
    /\ lines = <<>> /\ idx = 0 /\ lists = <<>>
    /\ error = "none" /\ committed = FALSE

\* a loop that skips a failing line and goes on
AfterLine_skipAndContinue(err) == "loop"

\* where the loop goes after a line whose processing ended with err
AfterLine(err) == IF err = "none" THEN "loop" ELSE "failed"

\* COLMAPDatabase.connect and readlines(), for the driver `phase`
Open(alphabet) ==
    /\ pc = "start"
    /\ db' = disk
    /\ startDisk' = disk
    /\ image_prior_spec' = NoneSpec
    /\ committed' = FALSE
    /\ lines' \in Files(alphabet)
    /\ idx' = 1
    /\ lists' = <<>>
    /\ pc' = "loop"
    /\ UNCHANGED <<disk, ret, ncalls, nprobes, phase, error>>

CamOpen == phase = "cam" /\ Open(CamLineAlphabet)

\* one iteration of camTodatabase's loop over the lines
CamLoopStep ==
    /\ phase = "cam" /\ pc = "loop" /\ idx <= Len(lines)
    /\ LET line == lines[idx]
       IN  IF line # <<>> /\ Head(line) = "#"
           THEN /\ pc' = AfterLine("none")
                /\ UNCHANGED <<db, lists, error>>
           ELSE LET p == ParseCamLine(line)
                    w == update_camera(db, p.rec.model, p.rec.width, p.rec.height,
                                       p.rec.params, p.rec.id)
                IN  IF p.error # "none"
                    THEN /\ error' = p.error
                         /\ pc' = AfterLine(p.error)
                         /\ UNCHANGED <<db, lists>>
                    ELSE /\ lists' = Append(lists, p.rec)
                         /\ db' = w.db
                         /\ error' = w.error
                         /\ pc' = AfterLine(w.error)
    /\ idx' = IF pc' = "loop" THEN idx + 1 ELSE idx
    /\ UNCHANGED <<disk, image_prior_spec, ret, ncalls, nprobes, phase, lines,
                   committed, startDisk>>

\* db.commit() after the loop
Commit ==
    /\ pc = "loop" /\ idx > Len(lines)
    /\ disk' = db
    /\ committed' = TRUE
    /\ pc' = "committed"
    /\ UNCHANGED <<db, image_prior_spec, ret, ncalls, nprobes, phase, lines, idx,
                   lists, error, startDisk>>

CamCommit == phase = "cam" /\ Commit

\* rows = db.execute("SELECT * FROM cameras")
CamSelect ==
    /\ phase = "cam" /\ pc = "committed"
    /\ IF "cameras" \in db.tables
       THEN pc' = "verify" /\ idx' = 1 /\ error' = error
       ELSE pc' = "failed" /\ idx' = idx /\ error' = "OperationalError"
    /\ UNCHANGED <<db, disk, image_prior_spec, ret, ncalls, nprobes, phase, lines,
                   lists, committed, startDisk>>

\* the outcome of one iteration of the verification loop
VerifyRow(d, i, rec) ==
    LET keys == KeyOrder(DOMAIN d.cameras)
    IN  IF i > Len(keys) THEN "StopIteration"
        ELSE LET row == d.cameras[keys[i]]
             IN  IF keys[i] # rec.id THEN "AssertionError"
                 ELSE IF ~(row.model = rec.model /\ row.width = rec.width
                           /\ row.height = rec.height) THEN "AssertionError"
                 ELSE IF blob_to_array(row.params) # rec.params THEN "AssertionError"
                 ELSE "none"

CamVerifyStep ==
    /\ phase = "cam" /\ pc = "verify" /\ idx <= Len(lists)
    /\ LET e == VerifyRow(db, idx, lists[idx])
       IN  /\ error' = e
           /\ pc' = IF e = "none" THEN "verify" ELSE "failed"
           /\ idx' = IF e = "none" THEN idx + 1 ELSE idx
    /\ UNCHANGED <<db, disk, image_prior_spec, ret, ncalls, nprobes, phase, lines,
                   lists, committed, startDisk>>

\* db.close(); __main__ goes on to imgTodatabase
CamClose ==
    /\ phase = "cam" /\ pc = "verify" /\ idx > Len(lists)
    /\ phase' = "img"
    /\ pc' = "start"
    /\ UNCHANGED <<db, disk, image_prior_spec, ret, ncalls, nprobes, lines, idx,
                   lists, error, committed, startDisk>>

ImgOpen == phase = "img" /\ Open(ImgLineAlphabet)

\* one iteration of imgTodatabase's loop over the lines
ImgLoopStep ==
    /\ phase = "img" /\ pc = "loop" /\ idx <= Len(lines)
    /\ LET image_metas == lines[idx]
       IN  IF Len(image_metas) = 0
           THEN /\ pc' = AfterLine("none")
                /\ UNCHANGED <<db, image_prior_spec, nprobes, error>>
           ELSE LET p == ParseImgLine(image_metas)
                    r == update_image(image_prior_spec, db, p.a)
                IN  IF p.error # "none"
                    THEN /\ error' = p.error
                         /\ pc' = AfterLine(p.error)
                         /\ UNCHANGED <<db, image_prior_spec, nprobes>>
                    ELSE /\ db' = r.db
                         /\ image_prior_spec' = r.spec
                         /\ nprobes' = nprobes + (IF r.probed THEN 1 ELSE 0)
                         /\ error' = r.error
                         /\ pc' = AfterLine(r.error)
    /\ idx' = IF pc' = "loop" THEN idx + 1 ELSE idx
    /\ UNCHANGED <<disk, ret, ncalls, phase, lines, lists, committed, startDisk>>

ImgCommit == phase = "img" /\ Commit

\* db.close(); the program ends
ImgClose ==
    /\ phase = "img" /\ pc = "committed"
    /\ phase' = "exit"
    /\ pc' = "done"
    /\ UNCHANGED <<db, disk, image_prior_spec, ret, ncalls, nprobes, lines, idx,
                   lists, error, committed, startDisk>>

\* the process is terminated while a driver runs: the connection goes away
\* without a commit
Terminate ==
    /\ phase \in {"cam", "img"} /\ pc \in {"loop", "committed", "verify"}
    /\ pc' = "killed"
    /\ UNCHANGED <<db, disk, image_prior_spec, ret, ncalls, nprobes, phase, lines,
                   idx, lists, error, committed, startDisk>>

NextPass ==
    \/ CamOpen \/ CamLoopStep \/ CamCommit \/ CamSelect \/ CamVerifyStep \/ CamClose
    \/ ImgOpen \/ ImgLoopStep \/ ImgCommit \/ ImgClose
    \/ Terminate

SpecPass == InitPass /\ [][NextPass]_vars

----------------------------------------------------------------------------
(* Properties of the drivers *)

\* the driver that lines, lists, committed and startDisk belong to
CurrentPass ==
    IF phase = "img" /\ pc = "start" THEN "cam"
    ELSE IF phase = "exit" THEN "img"
    ELSE phase

CommentLine(line) == line # <<>> /\ Head(line) = "#"

\* a cameras.txt line: id, known model name, width, height, up to 8 parameters
WellFormedCam(line) ==
    /\ Len(line) >= 4
    /\ IsNumber(line[1]) /\ line[2] \in Range(CamModelNames)
    /\ IsNumber(line[3]) /\ IsNumber(line[4])
    /\ \A k \in 5..Len(line) : k <= 12 => IsNumber(line[k])

\* an images.txt line: nine numeric fields, then anything
WellFormedImg(line) ==
    Len(line) >= 9 /\ \A k \in 1..9 : IsNumber(line[k])

\* processing this line of the pass raises, on a database file like d
LineFails(pass, line, d) ==
    IF pass = "cam"
    THEN ~CommentLine(line) /\ (~WellFormedCam(line) \/ "cameras" \notin d.tables)
    ELSE line # <<>>
         /\ (\/ ~WellFormedImg(line)
             \/ (~AllRolesPresent(ImagesColumnsOf(d)) /\ "pose_priors" \notin d.tables))

C6_State ==
    /\ ~committed => disk = startDisk
    /\ committed => \A i \in DOMAIN lines : ~LineFails(CurrentPass, lines[i], startDisk)
    /\ (pc = "failed" /\ ~committed)
          => /\ idx \in DOMAIN lines
             /\ LineFails(CurrentPass, lines[idx], startDisk)
             /\ \A j \in 1..(idx - 1) : ~LineFails(CurrentPass, lines[j], startDisk)
             /\ error # "none"

\* C6: the database file changes only in the one commit that follows the
\* loop of a pass; until then it is as the pass found it, also when the pass
\* has failed or the process was terminated; a pass with a line whose parse
\* or write fails stops at the first such line and never commits.
C6_SingleCommitPerPass ==
    /\ []C6_State
    /\ [][disk' # disk
            => (~committed /\ committed' /\ disk' = db /\ idx > Len(lines))]_vars

\* a pass staged the write of its first line and failed at its second
C6_Witness ==
    /\ pc = "failed" /\ ~committed /\ idx = 2
    /\ db # disk /\ disk = startDisk

\* the camera lines of cameras.txt, in input order
RecLines == SelectSeq(lines, LAMBDA l : ~CommentLine(l))

\* a cameras row carries the values of a cameras.txt line
RowEquals(row, line) ==
    /\ row.model = camModelDict[line[2]]
    /\ row.width = NumberOf(line[3])
    /\ row.height = NumberOf(line[4])
    /\ blob_to_array(row.params) = [k \in 1..(Len(line) - 4) |-> NumberOf(line[k + 4])]

\* camTodatabase has committed its load
CamLoaded == CurrentPass = "cam" /\ committed

\* every input line finds its values in the row of its camera id
CamLoadGood ==
    \A i \in DOMAIN RecLines :
        /\ NumberOf(RecLines[i][1]) \in DOMAIN disk.cameras
        /\ RowEquals(disk.cameras[NumberOf(RecLines[i][1])], RecLines[i])

CamAccepted == phase = "img" /\ pc = "start"
CamRejected == phase = "cam" /\ pc = "failed" /\ committed

\* C7: a pass that targeted an id with no row does not run to completion
C7_AbsentIdIsAnError ==
    /\ (phase = "img" /\ pc = "start")
          => \A i \in DOMAIN RecLines :
                NumberOf(RecLines[i][1]) \in DOMAIN disk.cameras
    /\ (phase = "exit" /\ pc = "done")
          => \A i \in DOMAIN lines :
                lines[i] # <<>> => NumberOf(lines[i][1]) \in DOMAIN disk.images

IdsArePrefix ==
    LET keys == KeyOrder(DOMAIN disk.cameras)
    IN  /\ Len(RecLines) <= Len(keys)
        /\ \A i \in DOMAIN RecLines : NumberOf(RecLines[i][1]) = keys[i]

====
